---- MODULE Spec2Model ----
(***************************************************************************)
(* The escrow program of src/src/processor.rs as a state machine.          *)
(*                                                                         *)
(* State: the ledger of accounts the two instructions touch (every account *)
(* has lamports, an owning program and data), and the record of the last   *)
(* invocation (its instruction, its accounts and amount, its result and    *)
(* the ledger commands it issued).  One action per instruction: InitEscrow *)
(* (process_init_escrow) and Exchange (process_trade).  An invocation runs *)
(* to its return; the host keeps its effects when it returns Ok and        *)
(* discards them when it returns an error.                                 *)
(*                                                                         *)
(* Account data are tuples of fields, one position per field of the packed *)
(* layout: a token account is <<mint, owner, amount, state>>, an escrow    *)
(* record is <<is_initialized, initializer_pubkey,                         *)
(* temp_token_account_pubkey,                                              *)
(* initializer_token_to_receive_account_pubkey, expected_amount>>.         *)
(* Lamports are unsigned integers of LamportBits bits.                     *)
(***************************************************************************)
EXTENDS Integers, Sequences, FiniteSets, TLC

VARIABLES accounts, last, settled

vars == <<accounts, last, settled>>

----------------------------------------------------------------------------
(* Bounds *)

\* largest token amount an instruction or an initial balance names
MaxAmt == 2

\* width of the lamport integers (u64 in the program)
LamportBits == 4

U64_MAX == 2^LamportBits - 1

----------------------------------------------------------------------------
(* Programs, keys, layouts *)

OK == "Ok"

SYSTEM_PROGRAM == "system_program"
TOKEN_PROGRAM == "spl_token"
ESCROW_PROGRAM == "escrow_program"

\* Pubkey::default(), the identity fields of a record never written
ZERO_KEY == "11111111"

\* Pubkey::find_program_address(&[b"escrow"], program_id)
PDA == "pda"

\* number of fields of the packed token account / escrow record
TOKEN_LEN == 4
ESCROW_LEN == 5

Wallets == {"alice", "bob"}
TokenKeys == {"cust", "aliceY", "bobX", "bobY"}
Keys == Wallets \cup TokenKeys \cup {"esc"}

TokenData(mint, owner, amount) == <<mint, owner, amount, 1>>

ZeroEscrowData == <<0, ZERO_KEY, ZERO_KEY, ZERO_KEY, 0>>

\* Rent::minimum_balance(data_len), one lamport per byte and per account
RentMinimumBalance(data_len) == data_len + 1

RentIsExempt(lamports, data_len) == lamports >= RentMinimumBalance(data_len)

----------------------------------------------------------------------------
(* The token ledger program (spl_token), as the processor invokes it.      *)
(* Every command returns [err, accts].                                     *)

TokenUnpackErr(data) ==
    IF Len(data) # TOKEN_LEN THEN "InvalidAccountData"
    ELSE IF data[4] # 1 THEN "UninitializedAccount"
    ELSE OK

TokenMint(data) == data[1]
TokenOwner(data) == data[2]
TokenAmount(data) == data[3]

\* validate_owner: the authority named must be the account's owner and sign
ValidateOwnerErr(expected_owner, authority, signed) ==
    IF expected_owner # authority THEN "OwnerMismatch"
    ELSE IF ~signed THEN "MissingRequiredSignature"
    ELSE OK

spl_transfer(accts, source, destination, authority, signed, amount) ==
    LET s == accts[source].data
        d == accts[destination].data
        fail(e) == [err |-> e, accts |-> accts]
    IN  IF accts[source].owner # TOKEN_PROGRAM \/ TokenUnpackErr(s) # OK
            THEN fail("InvalidAccountData")
        ELSE IF accts[destination].owner # TOKEN_PROGRAM \/ TokenUnpackErr(d) # OK
            THEN fail("InvalidAccountData")
        ELSE IF TokenAmount(s) < amount THEN fail("InsufficientFunds")
        ELSE IF TokenMint(s) # TokenMint(d) THEN fail("MintMismatch")
        ELSE IF ValidateOwnerErr(TokenOwner(s), authority, signed) # OK
            THEN fail(ValidateOwnerErr(TokenOwner(s), authority, signed))
        ELSE IF source = destination \/ amount = 0 THEN [err |-> OK, accts |-> accts]
        ELSE IF TokenAmount(d) + amount > U64_MAX THEN fail("Overflow")
        ELSE [err |-> OK,
              accts |-> [accts EXCEPT
                  ![source].data = [s EXCEPT ![3] = @ - amount],
                  ![destination].data = [d EXCEPT ![3] = @ + amount]]]

spl_set_authority(accts, account, new_authority, authority, signed) ==
    LET s == accts[account].data
        fail(e) == [err |-> e, accts |-> accts]
    IN  IF accts[account].owner # TOKEN_PROGRAM \/ TokenUnpackErr(s) # OK
            THEN fail("InvalidAccountData")
        ELSE IF ValidateOwnerErr(TokenOwner(s), authority, signed) # OK
            THEN fail(ValidateOwnerErr(TokenOwner(s), authority, signed))
        ELSE [err |-> OK,
              accts |-> [accts EXCEPT ![account].data = [s EXCEPT ![2] = new_authority]]]

spl_close_account(accts, account, destination, authority, signed) ==
    LET s == accts[account].data
        fail(e) == [err |-> e, accts |-> accts]
    IN  IF account = destination THEN fail("InvalidAccountData")
        ELSE IF accts[account].owner # TOKEN_PROGRAM \/ TokenUnpackErr(s) # OK
            THEN fail("InvalidAccountData")
        ELSE IF TokenAmount(s) # 0 THEN fail("NonNativeHasBalance")
        ELSE IF ValidateOwnerErr(TokenOwner(s), authority, signed) # OK
            THEN fail(ValidateOwnerErr(TokenOwner(s), authority, signed))
        ELSE IF accts[destination].lamports + accts[account].lamports > U64_MAX
            THEN fail("Overflow")
        ELSE [err |-> OK,
              accts |-> [accts EXCEPT
                  ![destination].lamports = @ + accts[account].lamports,
                  ![account] = [lamports |-> 0, owner |-> SYSTEM_PROGRAM, data |-> <<>>]]]

----------------------------------------------------------------------------
(* The escrow record (crate::state::Escrow) and its packed layout *)

\* Pack::unpack_unchecked: the length check, then unpack_from_slice
EscrowUnpackUncheckedErr(data) ==
    IF Len(data) # ESCROW_LEN THEN "InvalidAccountData"
    ELSE IF data[1] \notin {0, 1} THEN "InvalidAccountData"
    ELSE OK

EscrowFromSlice(data) ==
    [is_initialized |-> (data[1] = 1),
     initializer_pubkey |-> data[2],
     temp_token_account_pubkey |-> data[3],
     initializer_token_to_receive_account_pubkey |-> data[4],
     expected_amount |-> data[5]]

\* Pack::unpack: unpack_unchecked, then the is_initialized check
EscrowUnpackErr(data) ==
    IF EscrowUnpackUncheckedErr(data) # OK THEN EscrowUnpackUncheckedErr(data)
    ELSE IF ~EscrowFromSlice(data).is_initialized THEN "UninitializedAccount"
    ELSE OK

EscrowPack(info) ==
    <<IF info.is_initialized THEN 1 ELSE 0,
      info.initializer_pubkey,
      info.temp_token_account_pubkey,
      info.initializer_token_to_receive_account_pubkey,
      info.expected_amount>>

----------------------------------------------------------------------------
(* The host: an invocation's effects are kept when it returns Ok and       *)
(* discarded when it returns an error; an account left without lamports    *)
(* no longer exists afterwards.                                            *)

Purge(accts) ==
    [k \in DOMAIN accts |->
        IF accts[k].lamports = 0
        THEN [lamports |-> 0, owner |-> SYSTEM_PROGRAM, data |-> <<>>]
        ELSE accts[k]]

Commit(pre, r) == IF r.err = OK THEN Purge(r.accts) ELSE pre

\* a ledger command issued by an invocation, with the ledger's answer
Cpi(r, name, c) ==
    [err |-> c.err, accts |-> c.accts, cpi |-> Append(r.cpi, <<name, c.err>>)]

----------------------------------------------------------------------------
(* InitEscrow: Processor::process_init_escrow *)

\* the calls the initializer signed, and the calls nobody signed (these
\* return at the first check, whatever the other accounts are)
InitArgs ==
    [initializer : Wallets,
     is_signer : {TRUE},
     temp_token_account : {"cust", "aliceY"},
     token_to_receive_account : {"aliceY", "bobY", "alice"},
     escrow_account : {"esc"},
     amount : 0..MaxAmt]
    \cup
    [initializer : Wallets,
     is_signer : {FALSE},
     temp_token_account : {"cust"},
     token_to_receive_account : {"aliceY", "alice"},
     escrow_account : {"esc"},
     amount : 0..MaxAmt]

\* init_checks with a fault: an amount of 0 is refused (C18 must reject it)
init_checks_positive_amount(accts, a) ==
    LET esc == accts[a.escrow_account]
    IN  IF ~a.is_signer THEN "MissingRequiredSignature"
        ELSE IF accts[a.token_to_receive_account].owner # TOKEN_PROGRAM
            THEN "IncorrectProgramId"
        ELSE IF ~RentIsExempt(esc.lamports, Len(esc.data)) THEN "NotRentExempt"
        ELSE IF EscrowUnpackUncheckedErr(esc.data) # OK
            THEN EscrowUnpackUncheckedErr(esc.data)
        ELSE IF EscrowFromSlice(esc.data).is_initialized
            THEN "AccountAlreadyInitialized"
        ELSE IF a.amount = 0 THEN "InvalidInstruction"
        ELSE OK

\* init_checks with a fault: the record's rent is examined before the
\* receiving account's owner (C14 must reject it)
init_checks_rent_first(accts, a) ==
    LET esc == accts[a.escrow_account]
    IN  IF ~a.is_signer THEN "MissingRequiredSignature"
        ELSE IF ~RentIsExempt(esc.lamports, Len(esc.data)) THEN "NotRentExempt"
        ELSE IF accts[a.token_to_receive_account].owner # TOKEN_PROGRAM
            THEN "IncorrectProgramId"
        ELSE IF EscrowUnpackUncheckedErr(esc.data) # OK
            THEN EscrowUnpackUncheckedErr(esc.data)
        ELSE IF EscrowFromSlice(esc.data).is_initialized
            THEN "AccountAlreadyInitialized"
        ELSE OK

\* init_checks with a fault: the signer check is missing (C11 must reject it)
init_checks_unsigned(accts, a) ==
    LET esc == accts[a.escrow_account]
    IN  IF accts[a.token_to_receive_account].owner # TOKEN_PROGRAM
            THEN "IncorrectProgramId"
        ELSE IF ~RentIsExempt(esc.lamports, Len(esc.data)) THEN "NotRentExempt"
        ELSE IF EscrowUnpackUncheckedErr(esc.data) # OK
            THEN EscrowUnpackUncheckedErr(esc.data)
        ELSE IF EscrowFromSlice(esc.data).is_initialized
            THEN "AccountAlreadyInitialized"
        ELSE OK

\* init_checks with a fault: the is_initialized check is missing (C7 and C8
\* must reject it)
init_checks_unguarded(accts, a) ==
    LET esc == accts[a.escrow_account]
    IN  IF ~a.is_signer THEN "MissingRequiredSignature"
        ELSE IF accts[a.token_to_receive_account].owner # TOKEN_PROGRAM
            THEN "IncorrectProgramId"
        ELSE IF ~RentIsExempt(esc.lamports, Len(esc.data)) THEN "NotRentExempt"
        ELSE IF EscrowUnpackUncheckedErr(esc.data) # OK
            THEN EscrowUnpackUncheckedErr(esc.data)
        ELSE OK

\* the checks of lines 45-66, in the order of the code
init_checks(accts, a) ==
    LET esc == accts[a.escrow_account]
    IN  IF ~a.is_signer THEN "MissingRequiredSignature"
        ELSE IF accts[a.token_to_receive_account].owner # TOKEN_PROGRAM
            THEN "IncorrectProgramId"
        ELSE IF ~RentIsExempt(esc.lamports, Len(esc.data)) THEN "NotRentExempt"
        ELSE IF EscrowUnpackUncheckedErr(esc.data) # OK
            THEN EscrowUnpackUncheckedErr(esc.data)
        ELSE IF EscrowFromSlice(esc.data).is_initialized
            THEN "AccountAlreadyInitialized"
        ELSE OK

\* init_write_record with a fault: the custody account's key is stored in the
\* receiving-account field as well (C2 must reject it)
init_write_record_swapped(accts, a) ==
    [accts EXCEPT ![a.escrow_account].data =
        EscrowPack([is_initialized |-> TRUE,
                    initializer_pubkey |-> a.initializer,
                    temp_token_account_pubkey |-> a.temp_token_account,
                    initializer_token_to_receive_account_pubkey |->
                        a.temp_token_account,
                    expected_amount |-> a.amount])]

\* lines 68-74: the five fields are set and the record is packed
init_write_record(accts, a) ==
    [accts EXCEPT ![a.escrow_account].data =
        EscrowPack([is_initialized |-> TRUE,
                    initializer_pubkey |-> a.initializer,
                    temp_token_account_pubkey |-> a.temp_token_account,
                    initializer_token_to_receive_account_pubkey |->
                        a.token_to_receive_account,
                    expected_amount |-> a.amount])]

\* init_set_authority with a fault: the ledger's answer is ignored, and the
\* open succeeds with the record written (C15 must reject it)
init_set_authority_unchecked(r, a) ==
    IF r.err # OK THEN r
    ELSE LET c == spl_set_authority(r.accts, a.temp_token_account, PDA,
                                    a.initializer, a.is_signer)
         IN  [err |-> OK, accts |-> c.accts,
              cpi |-> Append(r.cpi, <<"set_authority", c.err>>)]

\* lines 76-96: the custody account's authority goes to the derived address
init_set_authority(r, a) ==
    IF r.err # OK THEN r
    ELSE Cpi(r, "set_authority",
             spl_set_authority(r.accts, a.temp_token_account, PDA,
                               a.initializer, a.is_signer))

process_init_escrow(accts, a) ==
    IF init_checks(accts, a) # OK
    THEN [err |-> init_checks(accts, a), accts |-> accts, cpi |-> <<>>]
    ELSE init_set_authority(
            [err |-> OK, accts |-> init_write_record(accts, a), cpi |-> <<>>], a)

----------------------------------------------------------------------------
(* Exchange: Processor::process_trade *)

\* the calls the taker signed, and the calls nobody signed (these return at
\* the first check, whatever the other accounts are)
TradeArgs ==
    [trade_taker : {"bob"},
     is_signer : {TRUE},
     taker_token_to_send : {"bobY", "aliceY"},
     taker_token_to_recieve : {"bobX", "cust", "bobY"},
     pdas_temp_token_account : {"cust", "bobX"},
     initializer_account : Wallets,
     initializer_token_to_recieve : {"aliceY", "bobY"},
     escrow_account : {"esc"},
     pda_account : {PDA},
     expected_amount : 0..MaxAmt]
    \cup
    [trade_taker : {"bob"},
     is_signer : {FALSE},
     taker_token_to_send : {"bobY"},
     taker_token_to_recieve : {"bobX"},
     pdas_temp_token_account : {"cust", "bobX"},
     initializer_account : Wallets,
     initializer_token_to_recieve : {"aliceY"},
     escrow_account : {"esc"},
     pda_account : {PDA},
     expected_amount : 0..MaxAmt]

\* line 131: the record the instruction reads
escrow_info(accts, a) == EscrowFromSlice(accts[a.escrow_account].data)

\* custody_amount_mismatch with a fault: the comparison is missing (C10 must
\* reject it)
custody_amount_mismatch_never(accts, a) == FALSE

\* line 123
custody_amount_mismatch(accts, a) ==
    TokenAmount(accts[a.pdas_temp_token_account].data) # a.expected_amount

\* taker_balance_short with a fault: the asserted amount is compared with the
\* record's expected_amount (C16 must reject it)
taker_balance_short_vs_asserted(accts, a) ==
    a.expected_amount # escrow_info(accts, a).expected_amount

\* line 135
taker_balance_short(accts, a) ==
    TokenAmount(accts[a.taker_token_to_send].data) < escrow_info(accts, a).expected_amount

\* line 139
initializer_mismatch(accts, a) ==
    escrow_info(accts, a).initializer_pubkey # a.initializer_account

\* temp_account_mismatch with a fault: the comparison is missing (C9 must
\* reject it)
temp_account_mismatch_never(accts, a) == FALSE

\* line 143
temp_account_mismatch(accts, a) ==
    escrow_info(accts, a).temp_token_account_pubkey # a.pdas_temp_token_account

\* receive_account_mismatch with a fault: the comparison is missing (C17 must
\* reject it)
receive_account_mismatch_never(accts, a) == FALSE

\* line 147
receive_account_mismatch(accts, a) ==
    escrow_info(accts, a).initializer_token_to_receive_account_pubkey
        # a.initializer_token_to_recieve

\* trade_checks with a fault: the three identities are compared before the
\* amounts (C13 must reject it)
trade_checks_identity_first(accts, a) ==
    IF ~a.is_signer THEN "MissingRequiredSignature"
    ELSE IF TokenUnpackErr(accts[a.pdas_temp_token_account].data) # OK
        THEN TokenUnpackErr(accts[a.pdas_temp_token_account].data)
    ELSE IF EscrowUnpackErr(accts[a.escrow_account].data) # OK
        THEN EscrowUnpackErr(accts[a.escrow_account].data)
    ELSE IF TokenUnpackErr(accts[a.taker_token_to_send].data) # OK
        THEN TokenUnpackErr(accts[a.taker_token_to_send].data)
    ELSE IF initializer_mismatch(accts, a) THEN "InvalidAccountData"
    ELSE IF temp_account_mismatch(accts, a) THEN "InvalidAccountData"
    ELSE IF receive_account_mismatch(accts, a) THEN "InvalidAccountData"
    ELSE IF custody_amount_mismatch(accts, a) THEN "ExpectedAmountMissmatch"
    ELSE IF taker_balance_short(accts, a) THEN "ExpectedAmountMissmatch"
    ELSE OK

\* the checks of lines 110-151, in the order of the code
trade_checks(accts, a) ==
    IF ~a.is_signer THEN "MissingRequiredSignature"
    ELSE IF TokenUnpackErr(accts[a.pdas_temp_token_account].data) # OK
        THEN TokenUnpackErr(accts[a.pdas_temp_token_account].data)
    ELSE IF custody_amount_mismatch(accts, a) THEN "ExpectedAmountMissmatch"
    ELSE IF EscrowUnpackErr(accts[a.escrow_account].data) # OK
        THEN EscrowUnpackErr(accts[a.escrow_account].data)
    ELSE IF TokenUnpackErr(accts[a.taker_token_to_send].data) # OK
        THEN TokenUnpackErr(accts[a.taker_token_to_send].data)
    ELSE IF taker_balance_short(accts, a) THEN "ExpectedAmountMissmatch"
    ELSE IF initializer_mismatch(accts, a) THEN "InvalidAccountData"
    ELSE IF temp_account_mismatch(accts, a) THEN "InvalidAccountData"
    ELSE IF receive_account_mismatch(accts, a) THEN "InvalidAccountData"
    ELSE OK

\* trade_transfer_y with a fault: the amount the taker asserts is paid in
\* place of the record's expected_amount (C1 must reject it)
trade_transfer_y_asserted(r, a) ==
    IF r.err # OK THEN r
    ELSE Cpi(r, "transfer_y",
             spl_transfer(r.accts, a.taker_token_to_send,
                          a.initializer_token_to_recieve, a.trade_taker,
                          a.is_signer, a.expected_amount))

\* trade_transfer_y with a fault: asset Y is never paid (C5 must reject it)
trade_transfer_y_skipped(r, a) == r

\* lines 156-174: asset Y, the record's expected_amount, taker -> initializer
trade_transfer_y(r, a) ==
    IF r.err # OK THEN r
    ELSE Cpi(r, "transfer_y",
             spl_transfer(r.accts, a.taker_token_to_send,
                          a.initializer_token_to_recieve, a.trade_taker,
                          a.is_signer, escrow_info(r.accts, a).expected_amount))

\* trade_transfer_x with a fault: the record's expected_amount is moved in
\* place of the asserted amount (C20 must reject it)
trade_transfer_x_recorded(r, a) ==
    IF r.err # OK THEN r
    ELSE IF a.pda_account # PDA
        THEN Cpi(r, "transfer_x", [err |-> "MissingAccount", accts |-> r.accts])
    ELSE Cpi(r, "transfer_x",
             spl_transfer(r.accts, a.pdas_temp_token_account,
                          a.taker_token_to_recieve, PDA, TRUE,
                          escrow_info(r.accts, a).expected_amount))

\* lines 178-199: asset X, the asserted amount, custody -> taker, signed by
\* the derived authority
trade_transfer_x(r, a) ==
    IF r.err # OK THEN r
    ELSE IF a.pda_account # PDA
        THEN Cpi(r, "transfer_x", [err |-> "MissingAccount", accts |-> r.accts])
    ELSE Cpi(r, "transfer_x",
             spl_transfer(r.accts, a.pdas_temp_token_account,
                          a.taker_token_to_recieve, PDA, TRUE, a.expected_amount))

\* trade_close_temp with a fault: the ledger's refusal to close is ignored
\* (C4 must reject it)
trade_close_temp_unchecked(r, a) ==
    IF r.err # OK THEN r
    ELSE [Cpi(r, "close_account",
              spl_close_account(r.accts, a.pdas_temp_token_account,
                                a.initializer_account, PDA, TRUE))
            EXCEPT !.err = OK]

\* lines 201-219: the custody account is closed, its lamports go to the
\* initializer
trade_close_temp(r, a) ==
    IF r.err # OK THEN r
    ELSE Cpi(r, "close_account",
             spl_close_account(r.accts, a.pdas_temp_token_account,
                               a.initializer_account, PDA, TRUE))

\* trade_close_escrow with a fault: the lamports are added without the
\* overflow check and wrap at the integer's width (C12 must reject it)
trade_close_escrow_wrapping(r, a) ==
    IF r.err # OK THEN r
    ELSE [r EXCEPT !.accts =
            [r.accts EXCEPT
                ![a.initializer_account].lamports =
                    (@ + r.accts[a.escrow_account].lamports) % (U64_MAX + 1),
                ![a.escrow_account].lamports = 0,
                ![a.escrow_account].data = <<>>]]

\* trade_close_escrow with a fault: the record is reset to zeroes and keeps its
\* lamports (C6 must reject it)
trade_close_escrow_reset(r, a) ==
    IF r.err # OK THEN r
    ELSE [r EXCEPT !.accts =
            [r.accts EXCEPT ![a.escrow_account].data = ZeroEscrowData]]

\* lines 221-228: the record's lamports go to the initializer with
\* checked_add, the record's lamports and data are cleared
trade_close_escrow(r, a) ==
    IF r.err # OK THEN r
    ELSE IF r.accts[a.initializer_account].lamports
                + r.accts[a.escrow_account].lamports > U64_MAX
        THEN [r EXCEPT !.err = "AmountOverFlow"]
    ELSE [r EXCEPT !.accts =
            [r.accts EXCEPT
                ![a.initializer_account].lamports =
                    @ + r.accts[a.escrow_account].lamports,
                ![a.escrow_account].lamports = 0,
                ![a.escrow_account].data = <<>>]]

\* process_trade with a fault: after the two transfers nothing is closed, the
\* custody account and the record stay as they are (C3 must reject it)
process_trade_nothing_closed(accts, a) ==
    IF trade_checks(accts, a) # OK
    THEN [err |-> trade_checks(accts, a), accts |-> accts, cpi |-> <<>>]
    ELSE trade_transfer_x(
            trade_transfer_y([err |-> OK, accts |-> accts, cpi |-> <<>>], a), a)

process_trade(accts, a) ==
    IF trade_checks(accts, a) # OK
    THEN [err |-> trade_checks(accts, a), accts |-> accts, cpi |-> <<>>]
    ELSE trade_close_escrow(
            trade_close_temp(
                trade_transfer_x(
                    trade_transfer_y([err |-> OK, accts |-> accts, cpi |-> <<>>], a),
                    a),
                a),
            a)

----------------------------------------------------------------------------
(* The state machine *)

\* Every token account holds the rent-exempt minimum of its size; the custody
\* account's balance of X, the initializer's lamports (few, or so many that the
\* record's lamports no longer fit on top) and the record's lamports (the
\* rent-exempt minimum, or one less) vary.
InitLedger(custAmt, aliceLamports, escLamports) ==
    [k \in Keys |->
        CASE k = "alice"  -> [lamports |-> aliceLamports, owner |-> SYSTEM_PROGRAM,
                              data |-> <<>>]
          [] k = "bob"    -> [lamports |-> 1, owner |-> SYSTEM_PROGRAM,
                              data |-> <<>>]
          [] k = "cust"   -> [lamports |-> RentMinimumBalance(TOKEN_LEN), owner |-> TOKEN_PROGRAM,
                              data |-> TokenData("X", "alice", custAmt)]
          [] k = "aliceY" -> [lamports |-> RentMinimumBalance(TOKEN_LEN), owner |-> TOKEN_PROGRAM,
                              data |-> TokenData("Y", "alice", 0)]
          [] k = "bobX"   -> [lamports |-> RentMinimumBalance(TOKEN_LEN), owner |-> TOKEN_PROGRAM,
                              data |-> TokenData("X", "bob", 1)]
          [] k = "bobY"   -> [lamports |-> RentMinimumBalance(TOKEN_LEN), owner |-> TOKEN_PROGRAM,
                              data |-> TokenData("Y", "bob", MaxAmt - 1)]
          [] k = "esc"    -> [lamports |-> escLamports, owner |-> ESCROW_PROGRAM,
                              data |-> ZeroEscrowData]]

\* the same ledger with a taker who holds no asset Y
InitLedgerEmptyTaker ==
    [InitLedger(MaxAmt, 1, RentMinimumBalance(ESCROW_LEN))
        EXCEPT !["bobY"].data = TokenData("Y", "bob", 0)]

Init ==
    /\ \/ \E custAmt \in {0, MaxAmt} :
          \E aliceLamports \in {1, U64_MAX - RentMinimumBalance(ESCROW_LEN)
                                        - RentMinimumBalance(TOKEN_LEN) + 1} :
          \E escLamports \in {RentMinimumBalance(ESCROW_LEN) - 1,
                              RentMinimumBalance(ESCROW_LEN)} :
               accounts = InitLedger(custAmt, aliceLamports, escLamports)
       \/ accounts = InitLedgerEmptyTaker
    /\ last = [op |-> "none", args |-> [none |-> TRUE], err |-> OK, cpi |-> <<>>]
    /\ settled = {}

InitEscrow ==
    \E a \in InitArgs :
        LET r == process_init_escrow(accounts, a)
        IN  /\ accounts' = Commit(accounts, r)
            /\ last' = [op |-> "InitEscrow", args |-> a, err |-> r.err, cpi |-> r.cpi]
            /\ settled' = settled

Exchange ==
    \E a \in TradeArgs :
        LET r == process_trade(accounts, a)
        IN  /\ accounts' = Commit(accounts, r)
            /\ last' = [op |-> "Exchange", args |-> a, err |-> r.err, cpi |-> r.cpi]
            /\ settled' = IF r.err = OK THEN settled \cup {a} ELSE settled

\* Processor::process: the instruction tag selects one of the two handlers
Next == InitEscrow \/ Exchange

Spec == Init /\ [][Next]_vars

----------------------------------------------------------------------------
(* Two escrows of one initializer, open at the same time *)

\* the ledger with a second custody account and a second record account, and
\* a taker who holds enough asset Y to settle both
InitLedgerTwo ==
    [k \in Keys \cup {"cust2", "esc2"} |->
        CASE k = "cust2" -> [lamports |-> RentMinimumBalance(TOKEN_LEN),
                             owner |-> TOKEN_PROGRAM,
                             data |-> TokenData("X", "alice", 1)]
          [] k = "esc2"  -> [lamports |-> RentMinimumBalance(ESCROW_LEN),
                             owner |-> ESCROW_PROGRAM, data |-> ZeroEscrowData]
          [] k = "bobY"  -> [lamports |-> RentMinimumBalance(TOKEN_LEN),
                             owner |-> TOKEN_PROGRAM,
                             data |-> TokenData("Y", "bob", 2 * MaxAmt)]
          [] OTHER       -> InitLedger(MaxAmt, 1, RentMinimumBalance(ESCROW_LEN))[k]]

InitTwo ==
    /\ accounts = InitLedgerTwo
    /\ last = [op |-> "none", args |-> [none |-> TRUE], err |-> OK, cpi |-> <<>>]
    /\ settled = {}

InitArgsTwo ==
    [initializer : {"alice"}, is_signer : {TRUE},
     temp_token_account : {"cust", "cust2"},
     token_to_receive_account : {"aliceY", "bobY"},
     escrow_account : {"esc", "esc2"},
     amount : 1..MaxAmt]

TradeArgsTwo ==
    [trade_taker : {"bob"}, is_signer : {TRUE},
     taker_token_to_send : {"bobY"},
     taker_token_to_recieve : {"bobX"},
     pdas_temp_token_account : {"cust", "cust2"},
     initializer_account : {"alice"},
     initializer_token_to_recieve : {"aliceY", "bobY"},
     escrow_account : {"esc", "esc2"},
     pda_account : {PDA},
     expected_amount : 0..MaxAmt]

InitEscrowTwo ==
    \E a \in InitArgsTwo :
        LET r == process_init_escrow(accounts, a)
        IN  /\ accounts' = Commit(accounts, r)
            /\ last' = [op |-> "InitEscrow", args |-> a, err |-> r.err, cpi |-> r.cpi]
            /\ settled' = settled

ExchangeTwo ==
    \E a \in TradeArgsTwo :
        LET r == process_trade(accounts, a)
        IN  /\ accounts' = Commit(accounts, r)
            /\ last' = [op |-> "Exchange", args |-> a, err |-> r.err, cpi |-> r.cpi]
            /\ settled' = IF r.err = OK THEN settled \cup {a} ELSE settled

NextTwo == InitEscrowTwo \/ ExchangeTwo

SpecTwo == InitTwo /\ [][NextTwo]_vars

----------------------------------------------------------------------------
(* What the claims speak of *)

IsToken(accts, k) == TokenUnpackErr(accts[k].data) = OK

\* the token balance of an account; an account that no longer exists holds none
Balance(accts, k) == IF IsToken(accts, k) THEN TokenAmount(accts[k].data) ELSE 0

Authority(accts, k) == IF IsToken(accts, k) THEN TokenOwner(accts[k].data) ELSE "none"

Closed(accts, k) == accts[k].lamports = 0 /\ accts[k].data = <<>>

RecordOpen(accts) == EscrowUnpackErr(accts["esc"].data) = OK

Record(accts) == EscrowFromSlice(accts["esc"].data)

RecordState(accts) ==
    IF Closed(accts, "esc") THEN "Settled"
    ELSE IF RecordOpen(accts) THEN "Open"
    ELSE "Uninitialized"

TotalOf(accts, mint) ==
    LET amt(k) == IF IsToken(accts, k) /\ TokenMint(accts[k].data) = mint
                  THEN TokenAmount(accts[k].data) ELSE 0
    IN  amt("cust") + amt("aliceY") + amt("bobX") + amt("bobY")

AnyCpiFailed(cpi) == \E i \in 1..Len(cpi) : cpi[i][2] # OK

\* the preconditions the specification lists for settle
ListedSettlePre(accts, a) ==
    /\ a.is_signer
    /\ IsToken(accts, a.pdas_temp_token_account)
    /\ Balance(accts, a.pdas_temp_token_account) = a.expected_amount
    /\ RecordOpen(accts)
    /\ IsToken(accts, a.taker_token_to_send)
    /\ Balance(accts, a.taker_token_to_send) >= Record(accts).expected_amount
    /\ Record(accts).initializer_pubkey = a.initializer_account
    /\ Record(accts).temp_token_account_pubkey = a.pdas_temp_token_account
    /\ Record(accts).initializer_token_to_receive_account_pubkey
           = a.initializer_token_to_recieve

\* the effects the specification lists for settle
ListedSettleEffects(pre, post, a) ==
    /\ Balance(post, a.taker_token_to_recieve)
           = Balance(pre, a.taker_token_to_recieve)
               + Balance(pre, a.pdas_temp_token_account)
    /\ Balance(post, a.initializer_token_to_recieve)
           = Balance(pre, a.initializer_token_to_recieve) + Record(pre).expected_amount
    /\ Balance(post, a.taker_token_to_send)
           = Balance(pre, a.taker_token_to_send) - Record(pre).expected_amount
    /\ Closed(post, a.pdas_temp_token_account)
    /\ Closed(post, a.escrow_account)

FourDistinct(a) ==
    Cardinality({a.taker_token_to_send, a.taker_token_to_recieve,
                 a.pdas_temp_token_account, a.initializer_token_to_recieve}) = 4

\* the preconditions the specification lists for open
ListedOpenPre(accts, a) ==
    /\ a.is_signer
    /\ accts[a.token_to_receive_account].owner = TOKEN_PROGRAM
    /\ RentIsExempt(accts[a.escrow_account].lamports, Len(accts[a.escrow_account].data))
    /\ EscrowUnpackUncheckedErr(accts[a.escrow_account].data) = OK
    /\ ~EscrowFromSlice(accts[a.escrow_account].data).is_initialized

\* the effects the specification lists for open
ListedOpenEffects(post, a) ==
    /\ RecordOpen(post)
    /\ Record(post) = [is_initialized |-> TRUE,
                       initializer_pubkey |-> a.initializer,
                       temp_token_account_pubkey |-> a.temp_token_account,
                       initializer_token_to_receive_account_pubkey |->
                           a.token_to_receive_account,
                       expected_amount |-> a.amount]
    /\ Authority(post, a.temp_token_account) = PDA

----------------------------------------------------------------------------
(* C1 *)

\* C1 as stated: every settle call that meets the listed preconditions moves
\* the custody balance to the taker, expected_amount of Y to the initializer,
\* closes the custody account and clears the record.
C1_AsStated ==
    [][(last'.op = "Exchange" /\ ListedSettlePre(accounts, last'.args))
        => ListedSettleEffects(accounts, accounts', last'.args)]_vars

\* C1 as amended: every settle call that meets the listed preconditions, that
\* the ledger accepts (both transfers, the close and the lamport credit
\* succeed) and that names four distinct token accounts has the listed effects.
C1_SettleEffects ==
    [][(/\ last'.op = "Exchange"
        /\ ListedSettlePre(accounts, last'.args)
        /\ last'.err = OK
        /\ FourDistinct(last'.args))
        => ListedSettleEffects(accounts, accounts', last'.args)]_vars

\* a settle went through that moved asset X and asset Y between four accounts
C1_Witness ==
    /\ last.op = "Exchange" /\ last.err = OK
    /\ FourDistinct(last.args)
    /\ last.args.expected_amount > 0
    /\ Balance(accounts, "aliceY") > 0
    /\ Closed(accounts, "cust") /\ Closed(accounts, "esc")

----------------------------------------------------------------------------
(* C2 *)

\* C2 as stated: every open call that meets the listed preconditions leaves
\* the record initialized with the supplied identities and amount and the
\* custody account under the derived authority.
C2_AsStated ==
    [][(last'.op = "InitEscrow" /\ ListedOpenPre(accounts, last'.args))
        => ListedOpenEffects(accounts', last'.args)]_vars

\* C2 as amended: every open call that meets the listed preconditions and
\* whose ownership transfer the ledger accepts has the listed effects.
C2_OpenEffects ==
    [][(/\ last'.op = "InitEscrow"
        /\ ListedOpenPre(accounts, last'.args)
        /\ last'.err = OK)
        => ListedOpenEffects(accounts', last'.args)]_vars

\* an open went through, with a non-zero amount
C2_Witness ==
    /\ last.op = "InitEscrow" /\ last.err = OK
    /\ last.args.amount > 0
    /\ RecordOpen(accounts)

----------------------------------------------------------------------------
(* C3 *)

\* C3: a settle invocation that already succeeded, invoked again with the same
\* accounts and amount, fails before any ledger command (the custody account
\* and the record no longer exist) and changes nothing.
C3_ReplayFails ==
    [][(last'.op = "Exchange" /\ last'.args \in settled)
        => /\ last'.err \in {"InvalidAccountData", "UninitializedAccount"}
           /\ last'.cpi = <<>>
           /\ accounts' = accounts]_vars

\* a settle that had succeeded was invoked again
C3_Witness ==
    /\ last.op = "Exchange" /\ last.args \in settled /\ last.err # OK
    /\ last.args.expected_amount > 0

----------------------------------------------------------------------------
(* C4 *)

\* C4: a settle in which any step fails (a precondition, a ledger command or
\* the lamport credit) leaves every account as it was before the invocation.
C4_FailedSettleChangesNothing ==
    [][(last'.op = "Exchange" /\ (last'.err # OK \/ AnyCpiFailed(last'.cpi)))
        => accounts' = accounts]_vars

\* a settle failed in the lamport credit, after both transfers and the close
\* had succeeded
C4_Witness ==
    /\ last.op = "Exchange" /\ last.err = "AmountOverFlow"
    /\ last.cpi = <<<<"transfer_y", OK>>, <<"transfer_x", OK>>, <<"close_account", OK>>>>
    /\ last.args.expected_amount > 0

----------------------------------------------------------------------------
(* C5 *)

\* what a settle is meant to move into (+) or out of (-) token account k
IntendedDelta(pre, a, k) ==
      (IF k = a.taker_token_to_recieve THEN Balance(pre, a.pdas_temp_token_account) ELSE 0)
    - (IF k = a.pdas_temp_token_account THEN Balance(pre, a.pdas_temp_token_account) ELSE 0)
    + (IF k = a.initializer_token_to_recieve THEN Record(pre).expected_amount ELSE 0)
    - (IF k = a.taker_token_to_send THEN Record(pre).expected_amount ELSE 0)

\* C5: no invocation changes the total of asset X or of asset Y over the token
\* accounts, and a successful settle changes each token account's balance by
\* the intended transfers and by nothing else.
C5_Conservation ==
    [][/\ TotalOf(accounts', "X") = TotalOf(accounts, "X")
       /\ TotalOf(accounts', "Y") = TotalOf(accounts, "Y")
       /\ (last'.op = "Exchange" /\ last'.err = OK)
            => \A k \in TokenKeys :
                 Balance(accounts', k)
                    = Balance(accounts, k) + IntendedDelta(accounts, last'.args, k)]_vars

\* an open and then a settle went through, and both assets moved
C5_Witness ==
    /\ last.op = "Exchange" /\ last.err = OK
    /\ Balance(accounts, "bobX") > 1
    /\ Balance(accounts, "aliceY") > 0

----------------------------------------------------------------------------
(* C6 *)

\* C6: the record moves only from Uninitialized to Open, by a successful open,
\* and from Open to Settled, by a successful settle; every other invocation
\* leaves it in the state it is in.
C6_Lifecycle ==
    [][\/ RecordState(accounts') = RecordState(accounts)
       \/ /\ RecordState(accounts) = "Uninitialized"
          /\ RecordState(accounts') = "Open"
          /\ last'.op = "InitEscrow" /\ last'.err = OK
       \/ /\ RecordState(accounts) = "Open"
          /\ RecordState(accounts') = "Settled"
          /\ last'.op = "Exchange" /\ last'.err = OK]_vars

\* a signed open was tried on a settled record
C6_Witness ==
    /\ RecordState(accounts) = "Settled"
    /\ last.op = "InitEscrow" /\ last.args.is_signer
    /\ last.args.token_to_receive_account = "aliceY"

----------------------------------------------------------------------------
(* C7 *)

\* C7 as stated: open on an initialized record fails with AlreadyInitialized
\* and leaves the record unchanged.
C7_AsStated ==
    [][(last'.op = "InitEscrow" /\ RecordOpen(accounts))
        => /\ last'.err = "AccountAlreadyInitialized"
           /\ accounts'["esc"] = accounts["esc"]]_vars

\* C7 as amended: open on an initialized record fails and leaves the record
\* unchanged; the error is AlreadyInitialized when the initializer signed and
\* the receiving account is owned by the ledger program, and the error of the
\* earlier check otherwise.
C7_OpenOnInitialized ==
    [][(last'.op = "InitEscrow" /\ RecordOpen(accounts))
        => /\ last'.err # OK
           /\ last'.cpi = <<>>
           /\ accounts'["esc"] = accounts["esc"]
           /\ (/\ last'.args.is_signer
               /\ accounts[last'.args.token_to_receive_account].owner = TOKEN_PROGRAM)
                => last'.err = "AccountAlreadyInitialized"
           /\ ~last'.args.is_signer => last'.err = "MissingRequiredSignature"]_vars

\* an open with other terms was refused on an initialized record
C7_Witness ==
    /\ RecordOpen(accounts)
    /\ last.op = "InitEscrow" /\ last.err = "AccountAlreadyInitialized"
    /\ last.args.initializer = "alice"
    /\ last.args.temp_token_account # Record(accounts).temp_token_account_pubkey
    /\ last.args.amount # Record(accounts).expected_amount

----------------------------------------------------------------------------
(* C8 *)

\* C8: while the record is initialized, every invocation leaves its data as
\* they are, except the successful settle, which destroys the record.
C8_FieldsImmutable ==
    [][RecordOpen(accounts)
        => \/ accounts'["esc"].data = accounts["esc"].data
           \/ /\ last'.op = "Exchange" /\ last'.err = OK
              /\ Closed(accounts', "esc")]_vars

\* on an initialized record, a signed open with other terms and a custody
\* account the initializer still owns was tried, and the record is as it was
C8_Witness ==
    /\ RecordOpen(accounts)
    /\ last.op = "InitEscrow" /\ last.args.is_signer
    /\ last.args.initializer = "alice"
    /\ last.args.token_to_receive_account = "bobY"
    /\ Authority(accounts, last.args.temp_token_account) = "alice"
    /\ last.args.amount # Record(accounts).expected_amount

----------------------------------------------------------------------------
(* C9 *)

\* the checks of settle that come before the identity checks pass
ReachesIdentityChecks(accts, a) ==
    /\ a.is_signer
    /\ IsToken(accts, a.pdas_temp_token_account)
    /\ Balance(accts, a.pdas_temp_token_account) = a.expected_amount
    /\ RecordOpen(accts)
    /\ IsToken(accts, a.taker_token_to_send)
    /\ Balance(accts, a.taker_token_to_send) >= Record(accts).expected_amount

WrongInitializer(accts, a) == Record(accts).initializer_pubkey # a.initializer_account

WrongCustody(accts, a) ==
    Record(accts).temp_token_account_pubkey # a.pdas_temp_token_account

WrongReceiving(accts, a) ==
    Record(accts).initializer_token_to_receive_account_pubkey
        # a.initializer_token_to_recieve

\* C9: a settle that comes to the identity checks with the wrong initializer,
\* the wrong custody account or the wrong receiving account (any one of them,
\* the other two right or not) fails with InvalidAccountData, issues no ledger
\* command and changes nothing.
C9_IdentityChecks ==
    [][(/\ last'.op = "Exchange"
        /\ ReachesIdentityChecks(accounts, last'.args)
        /\ \/ WrongInitializer(accounts, last'.args)
           \/ WrongCustody(accounts, last'.args)
           \/ WrongReceiving(accounts, last'.args))
        => /\ last'.err = "InvalidAccountData"
           /\ last'.cpi = <<>>
           /\ accounts' = accounts]_vars

\* a settle was refused whose only fault was the custody account
C9_Witness ==
    /\ last.op = "Exchange" /\ last.err = "InvalidAccountData"
    /\ ReachesIdentityChecks(accounts, last.args)
    /\ ~WrongInitializer(accounts, last.args)
    /\ WrongCustody(accounts, last.args)
    /\ ~WrongReceiving(accounts, last.args)
    /\ last.args.expected_amount > 0

----------------------------------------------------------------------------
(* C10 *)

\* C10 as stated: a settle whose asserted amount differs from the custody
\* account's balance fails with AmountMismatch and moves nothing.
C10_AsStated ==
    [][(/\ last'.op = "Exchange"
        /\ IsToken(accounts, last'.args.pdas_temp_token_account)
        /\ Balance(accounts, last'.args.pdas_temp_token_account)
              # last'.args.expected_amount)
        => /\ last'.err = "ExpectedAmountMissmatch"
           /\ accounts' = accounts]_vars

\* C10 as amended: a settle whose asserted amount differs from the custody
\* account's balance fails, issues no ledger command and moves nothing; the
\* error is AmountMismatch when the taker signed and MissingSignature when not.
C10_AmountMismatch ==
    [][(/\ last'.op = "Exchange"
        /\ IsToken(accounts, last'.args.pdas_temp_token_account)
        /\ Balance(accounts, last'.args.pdas_temp_token_account)
              # last'.args.expected_amount)
        => /\ last'.err = IF last'.args.is_signer THEN "ExpectedAmountMissmatch"
                          ELSE "MissingRequiredSignature"
           /\ last'.cpi = <<>>
           /\ accounts' = accounts]_vars

\* a signed settle on an open record, right in all but the asserted amount,
\* was refused
C10_Witness ==
    /\ last.op = "Exchange" /\ last.err = "ExpectedAmountMissmatch"
    /\ last.args.is_signer
    /\ RecordOpen(accounts)
    /\ ~WrongInitializer(accounts, last.args)
    /\ ~WrongCustody(accounts, last.args)
    /\ ~WrongReceiving(accounts, last.args)
    /\ Balance(accounts, last.args.pdas_temp_token_account) > last.args.expected_amount

----------------------------------------------------------------------------
(* C11 *)

\* C11: an open the initializer did not sign fails with MissingSignature
\* before any ledger command, and leaves every account (the record and the
\* custody account's authority among them) as it was.
C11_UnsignedOpen ==
    [][(last'.op = "InitEscrow" /\ ~last'.args.is_signer)
        => /\ last'.err = "MissingRequiredSignature"
           /\ last'.cpi = <<>>
           /\ accounts' = accounts]_vars

\* an open that lacked only the signature was refused
C11_Witness ==
    /\ last.op = "InitEscrow" /\ ~last.args.is_signer
    /\ last.err = "MissingRequiredSignature"
    /\ RecordState(accounts) = "Uninitialized"
    /\ RentIsExempt(accounts["esc"].lamports, Len(accounts["esc"].data))
    /\ last.args.token_to_receive_account = "aliceY"
    /\ Authority(accounts, last.args.temp_token_account) = last.args.initializer

----------------------------------------------------------------------------
(* C12 *)

AllCpiOk(cpi) == Len(cpi) = 3 /\ ~AnyCpiFailed(cpi)

\* the initializer's lamports when settle comes to the credit: the custody
\* account's lamports have been added by the close
LamportsBeforeCredit(accts, a) ==
    accts[a.initializer_account].lamports + accts[a.pdas_temp_token_account].lamports

\* C12: in a settle whose three ledger commands succeeded, the record's
\* lamports are added to the initializer's when the sum fits the integer's
\* width (the initializer then holds exactly the sum, the record nothing), and
\* the settle fails with the Overflow error, nothing changed, when it does not;
\* no balance ever exceeds the width.
C12_CheckedCredit ==
    [][/\ \A k \in DOMAIN accounts' : accounts'[k].lamports \in 0..U64_MAX
       /\ (last'.op = "Exchange" /\ AllCpiOk(last'.cpi))
            => IF LamportsBeforeCredit(accounts, last'.args)
                    + accounts[last'.args.escrow_account].lamports <= U64_MAX
               THEN /\ last'.err = OK
                    /\ accounts'[last'.args.initializer_account].lamports
                         = LamportsBeforeCredit(accounts, last'.args)
                             + accounts[last'.args.escrow_account].lamports
                    /\ accounts'[last'.args.escrow_account].lamports = 0
               ELSE /\ last'.err = "AmountOverFlow"
                    /\ accounts' = accounts]_vars

\* a settle came to the credit with lamports that do not fit
C12_Witness ==
    /\ last.op = "Exchange" /\ AllCpiOk(last.cpi)
    /\ last.err = "AmountOverFlow"
    /\ LamportsBeforeCredit(accounts, last.args) <= U64_MAX
    /\ LamportsBeforeCredit(accounts, last.args)
          + accounts[last.args.escrow_account].lamports > U64_MAX

----------------------------------------------------------------------------
(* C13 *)

\* the six preconditions of settle can be told apart in a state: the call is
\* unsigned, or the custody account is a token account and either its balance
\* differs from the asserted amount or the record and the send account can be
\* read
SettleOrderDefined(accts, a) ==
    \/ ~a.is_signer
    \/ /\ IsToken(accts, a.pdas_temp_token_account)
       /\ \/ Balance(accts, a.pdas_temp_token_account) # a.expected_amount
          \/ RecordOpen(accts) /\ IsToken(accts, a.taker_token_to_send)

\* the error of the earliest violated precondition, in the stated order
ExpectedSettleError(accts, a) ==
    IF ~a.is_signer THEN "MissingRequiredSignature"
    ELSE IF Balance(accts, a.pdas_temp_token_account) # a.expected_amount
        THEN "ExpectedAmountMissmatch"
    ELSE IF Balance(accts, a.taker_token_to_send) < Record(accts).expected_amount
        THEN "ExpectedAmountMissmatch"
    ELSE IF WrongInitializer(accts, a) THEN "InvalidAccountData"
    ELSE IF WrongCustody(accts, a) THEN "InvalidAccountData"
    ELSE IF WrongReceiving(accts, a) THEN "InvalidAccountData"
    ELSE OK

\* C13: a settle returns the error of the earliest violated precondition in
\* the order signer, custody balance, taker balance, initializer identity,
\* custody identity, receiving identity, and issues no ledger command then;
\* with none violated it goes on to the ledger.
C13_SettleCheckOrder ==
    [][(last'.op = "Exchange" /\ SettleOrderDefined(accounts, last'.args))
        => IF ExpectedSettleError(accounts, last'.args) # OK
           THEN /\ last'.err = ExpectedSettleError(accounts, last'.args)
                /\ last'.cpi = <<>>
                /\ accounts' = accounts
           ELSE Len(last'.cpi) >= 1]_vars

\* a settle with a wrong amount and a wrong initializer at once was refused
\* for the amount
C13_Witness ==
    /\ last.op = "Exchange" /\ last.args.is_signer
    /\ RecordOpen(accounts) /\ IsToken(accounts, last.args.taker_token_to_send)
    /\ IsToken(accounts, last.args.pdas_temp_token_account)
    /\ Balance(accounts, last.args.pdas_temp_token_account) # last.args.expected_amount
    /\ WrongInitializer(accounts, last.args)
    /\ last.err = "ExpectedAmountMissmatch"
    /\ last.cpi = <<>>

----------------------------------------------------------------------------
(* C14 *)

\* the four preconditions of open can be told apart in a state
OpenOrderDefined(accts, a) ==
    \/ ~a.is_signer
    \/ accts[a.token_to_receive_account].owner # TOKEN_PROGRAM
    \/ ~RentIsExempt(accts[a.escrow_account].lamports, Len(accts[a.escrow_account].data))
    \/ EscrowUnpackUncheckedErr(accts[a.escrow_account].data) = OK

\* the error of the earliest violated precondition, in the stated order
ExpectedOpenError(accts, a) ==
    IF ~a.is_signer THEN "MissingRequiredSignature"
    ELSE IF accts[a.token_to_receive_account].owner # TOKEN_PROGRAM
        THEN "IncorrectProgramId"
    ELSE IF ~RentIsExempt(accts[a.escrow_account].lamports,
                          Len(accts[a.escrow_account].data))
        THEN "NotRentExempt"
    ELSE IF EscrowFromSlice(accts[a.escrow_account].data).is_initialized
        THEN "AccountAlreadyInitialized"
    ELSE OK

\* C14: an open returns the error of the earliest violated precondition in the
\* order signer, receiving account's owner, rent exemption, record not yet
\* initialized; the record is not written and no ownership transfer is issued
\* then; with none violated the ownership transfer is issued.
C14_OpenCheckOrder ==
    [][(last'.op = "InitEscrow" /\ OpenOrderDefined(accounts, last'.args))
        => IF ExpectedOpenError(accounts, last'.args) # OK
           THEN /\ last'.err = ExpectedOpenError(accounts, last'.args)
                /\ last'.cpi = <<>>
                /\ accounts' = accounts
           ELSE Len(last'.cpi) = 1]_vars

\* an open with a receiving account of the wrong owner and a record short of
\* rent was refused for the owner
C14_Witness ==
    /\ last.op = "InitEscrow" /\ last.args.is_signer
    /\ accounts[last.args.token_to_receive_account].owner # TOKEN_PROGRAM
    /\ ~RentIsExempt(accounts[last.args.escrow_account].lamports,
                     Len(accounts[last.args.escrow_account].data))
    /\ last.err = "IncorrectProgramId"
    /\ last.cpi = <<>>

----------------------------------------------------------------------------
(* C15 *)

\* C15: in every state between invocations, an Open record names a custody
\* account whose authority is the derived address.
C15_OpenImpliesCustodyHeld ==
    RecordOpen(accounts)
        => Authority(accounts, Record(accounts).temp_token_account_pubkey) = PDA

\* an open wrote the record, the ledger refused the ownership transfer, and
\* the record is not Open afterwards
C15_Witness ==
    /\ last.op = "InitEscrow"
    /\ Len(last.cpi) = 1 /\ last.cpi[1][1] = "set_authority" /\ last.cpi[1][2] # OK
    /\ last.err = last.cpi[1][2]
    /\ ~RecordOpen(accounts)
    /\ Authority(accounts, last.args.temp_token_account) # PDA

----------------------------------------------------------------------------
(* C16 *)

AmountChecksFail(accts, a) ==
    IF Balance(accts, a.pdas_temp_token_account) # a.expected_amount THEN TRUE
    ELSE Balance(accts, a.taker_token_to_send) < Record(accts).expected_amount

----------------------------------------------------------------------------
(* C20 *)

\* the accounts as the close-account command finds them
BeforeClose(accts, a) ==
    trade_transfer_x(
        trade_transfer_y([err |-> OK, accts |-> accts, cpi |-> <<>>], a), a).accts

ReachesClose(l) == l.op = "Exchange" /\ Len(l.cpi) >= 3

\* C20 as stated: whenever a settle reaches the close, the custody account is
\* empty and the close is not refused for a balance, whatever accounts were
\* supplied.
C20_AsStated ==
    [][ReachesClose(last')
        => /\ Balance(BeforeClose(accounts, last'.args),
                      last'.args.pdas_temp_token_account) = 0
           /\ last'.cpi[3][2] # "NonNativeHasBalance"]_vars

\* C20, amended: whenever a settle reaches the close with a taker
\* receive-account and an initializer receiving account other than the custody
\* account, the custody account is empty and the close is not refused for a
\* balance.
C20_CustodyEmptyAtClose ==
    [][(/\ ReachesClose(last')
        /\ last'.args.taker_token_to_recieve # last'.args.pdas_temp_token_account
        /\ last'.args.initializer_token_to_recieve # last'.args.pdas_temp_token_account)
        => /\ Balance(BeforeClose(accounts, last'.args),
                      last'.args.pdas_temp_token_account) = 0
           /\ last'.cpi[3][2] # "NonNativeHasBalance"]_vars

\* a settle of a custody account that held tokens reached the close and the
\* ledger closed the account
C20_Witness ==
    /\ ReachesClose(last)
    /\ last.args.expected_amount > 0
    /\ last.args.taker_token_to_recieve # last.args.pdas_temp_token_account
    /\ last.cpi[2] = <<"transfer_x", OK>>
    /\ last.cpi[3] = <<"close_account", OK>>

----------------------------------------------------------------------------
(* C17 *)

SettleSucceeded(l) == l.op = "Exchange" /\ l.err = OK

BalancesUnchanged(pre, post) == \A k \in TokenKeys : Balance(post, k) = Balance(pre, k)

\* C17 as stated: an Open record leaves Open, and a token balance changes
\* while it is Open, only in a settle that adds expected_amount of asset Y to
\* the balance of the initializer's receiving account.
C17_AsStated ==
    [][RecordOpen(accounts)
        => \/ /\ RecordOpen(accounts') /\ Record(accounts') = Record(accounts)
              /\ BalancesUnchanged(accounts, accounts')
           \/ /\ SettleSucceeded(last')
              /\ Balance(accounts',
                         Record(accounts).initializer_token_to_receive_account_pubkey)
                   = Balance(accounts,
                             Record(accounts).initializer_token_to_receive_account_pubkey)
                       + Record(accounts).expected_amount]_vars

\* what the transfer of asset Y adds to the receiving account: nothing when
\* the taker's send-account is that account
PaidToReceiving(accts, a) ==
    IF a.taker_token_to_send = Record(accts).initializer_token_to_receive_account_pubkey
    THEN 0
    ELSE Record(accts).expected_amount

\* C17, amended: an Open record leaves Open, and a token balance changes while
\* it is Open, only in a successful settle, whose first ledger command, the
\* transfer of expected_amount of asset Y from the taker's send-account to the
\* initializer's receiving account, was accepted; the transfer adds
\* expected_amount to the receiving account unless the send-account is the
\* receiving account itself.
C17_OnlySettleLeavesOpen ==
    [][RecordOpen(accounts)
        => \/ /\ RecordOpen(accounts') /\ Record(accounts') = Record(accounts)
              /\ BalancesUnchanged(accounts, accounts')
           \/ /\ SettleSucceeded(last')
              /\ ~RecordOpen(accounts')
              /\ last'.cpi[1] = <<"transfer_y", OK>>
              /\ Balance(accounts',
                         Record(accounts).initializer_token_to_receive_account_pubkey)
                   = Balance(accounts,
                             Record(accounts).initializer_token_to_receive_account_pubkey)
                       + PaidToReceiving(accounts, last'.args)]_vars

\* a settle closed the record although the taker's send-account was the
\* initializer's receiving account and expected_amount was not zero
C17_Witness ==
    /\ SettleSucceeded(last)
    /\ RecordState(accounts) = "Settled"
    /\ last.args.taker_token_to_send = last.args.initializer_token_to_recieve
    /\ Balance(accounts, last.args.taker_token_to_send) > 0
    /\ Balance(accounts, last.args.taker_token_to_recieve) > 1

----------------------------------------------------------------------------
(* C18 *)

\* the preconditions the specification lists for settle, the taker's balance
\* left aside
ListedSettlePreButBalance(accts, a) ==
    /\ a.is_signer
    /\ IsToken(accts, a.pdas_temp_token_account)
    /\ Balance(accts, a.pdas_temp_token_account) = a.expected_amount
    /\ RecordOpen(accts)
    /\ IsToken(accts, a.taker_token_to_send)
    /\ ~WrongInitializer(accts, a) /\ ~WrongCustody(accts, a) /\ ~WrongReceiving(accts, a)

AssetYUnchanged(pre, post) ==
    \A k \in TokenKeys :
        (IsToken(pre, k) /\ TokenMint(pre[k].data) = "Y")
            => (IsToken(post, k) /\ Balance(post, k) = Balance(pre, k))

\* C18: an open with amount 0 that meets the listed preconditions passes every
\* check, and stores expected_amount = 0 when the ledger accepts the ownership
\* transfer; a settle on a record with expected_amount = 0 that meets the
\* other listed preconditions passes every check whatever the taker's balance,
\* and when the ledger accepts it hands the whole custody balance to the
\* taker's receive-account and moves no asset Y.
C18_ZeroExpectedAmount ==
    [][/\ (/\ last'.op = "InitEscrow"
           /\ last'.args.amount = 0
           /\ ListedOpenPre(accounts, last'.args))
            => /\ Len(last'.cpi) = 1
               /\ last'.err = last'.cpi[1][2]
               /\ last'.err = OK
                    => /\ ListedOpenEffects(accounts', last'.args)
                       /\ Record(accounts').expected_amount = 0
       /\ (/\ last'.op = "Exchange"
           /\ ListedSettlePreButBalance(accounts, last'.args)
           /\ Record(accounts).expected_amount = 0)
            => /\ Len(last'.cpi) >= 1
               /\ last'.cpi[1][1] = "transfer_y"
               /\ last'.err = OK
                    => /\ AssetYUnchanged(accounts, accounts')
                       /\ Closed(accounts', last'.args.pdas_temp_token_account)
                       /\ Balance(accounts', last'.args.taker_token_to_recieve)
                            = Balance(accounts, last'.args.taker_token_to_recieve)
                                + Balance(accounts, last'.args.pdas_temp_token_account)]_vars

\* a taker who held no asset Y settled a record and received the custody
\* balance
C18_Witness ==
    /\ SettleSucceeded(last)
    /\ last.args.taker_token_to_send # last.args.initializer_token_to_recieve
    /\ Balance(accounts, last.args.taker_token_to_send) = 0
    /\ Balance(accounts, last.args.initializer_token_to_recieve) = 0
    /\ last.args.expected_amount = MaxAmt
    /\ Balance(accounts, last.args.taker_token_to_recieve) > MaxAmt

----------------------------------------------------------------------------
(* C19 *)

RecordKeys == {"esc", "esc2"}

TokenKeysTwo == TokenKeys \cup {"cust2"}

RecordOpenAt(accts, e) == EscrowUnpackErr(accts[e].data) = OK

RecordAt(accts, e) == EscrowFromSlice(accts[e].data)

MintOf(accts, k) == IF IsToken(accts, k) THEN TokenMint(accts[k].data) ELSE "none"

====
